---- MODULE Spec2Model ----
(***************************************************************************)
(* Model of app.py: the article catalog loader, the tag extractor, the TTL *)
(* cache (get_donnees), the result renderer and the Flask handler home().  *)
(*                                                                         *)
(* Python values.  A str is a sequence of one-character strings, so that   *)
(* strip(), lower(), split(',') and the comparison of strings are computed *)
(* character by character.  None is the value None below; a JSON number is *)
(* JNumber.  Neither is a str: a method call such as .strip() or .split()  *)
(* on them raises AttributeError, which the operators report as Raised.    *)
(***************************************************************************)
EXTENDS Integers, Sequences, FiniteSets, TLC

VARIABLES
    \* ---- extraire_tags_uniques applied to a catalog typed in row by row
    catalog,        \* the articles handed to extraire_tags_uniques
    tags_out,       \* its return value, Pending before the call
    \* ---- construire_html_resultats applied to (titres_trouves, articles)
    r_rows,         \* the csv.DictReader rows the articles are parsed from
    r_titres,       \* the titres_trouves argument
    r_articles,     \* the articles argument: parser_csv(r_rows)
    r_html,         \* its outcome, Pending before the call
    \* ---- charger_articles applied to an environment
    env,            \* sheet_url / remote fetch / local sources directory
    loaded,         \* its outcome, Pending before the call
    \* ---- the server: the clock, the cache, the request being handled
    now,            \* time.time()
    _cache,         \* the module's _cache dict
    g,              \* the last call of get_donnees: what it saw and did
    req,            \* the last call of home(): its request and its outcome
    \* ---- two request threads inside get_donnees
    th              \* per thread: position, locals, returned pair

tagVars    == <<catalog, tags_out>>
renderVars == <<r_rows, r_titres, r_articles, r_html>>
loadVars   == <<env, loaded>>
serverVars == <<now, _cache, g, req>>
vars       == <<tagVars, renderVars, loadVars, serverVars, th>>

----------------------------------------------------------------------------
(* Bounds of the model *)

\* articles of a typed-in catalog
MaxArticles == 2
\* characters of all tags fields of a typed-in catalog together
MaxChars == 4
\* titles in the list the model returned
MaxTitres == 2
\* .csv files in the local sources directory
MaxFiles == 2
\* time.time() when the process starts, and the end of the modelled time
StartNow == 1000
MaxNow == 1700

----------------------------------------------------------------------------
(* Python values and str methods *)

None    == <<"None">>
JNumber == <<"number">>

Chars ==
    {" ", "#", ",", "A", "B", "P", "S", "a", "b", "c", "d", "e", "h", "i",
     "n", "o", "p", "r", "s", "t"}

\* isinstance(v, str)
IsStr(v) == \A i \in 1..Len(v) : v[i] \in Chars

\* ord(c): the code point, which Python compares strings by
Ord(c) ==
    CASE c = " " -> 32  [] c = "#" -> 35  [] c = "," -> 44
      [] c = "A" -> 65  [] c = "B" -> 66  [] c = "P" -> 80  [] c = "S" -> 83
      [] c = "a" -> 97  [] c = "b" -> 98  [] c = "c" -> 99  [] c = "d" -> 100
      [] c = "e" -> 101 [] c = "h" -> 104 [] c = "i" -> 105 [] c = "n" -> 110
      [] c = "o" -> 111 [] c = "p" -> 112 [] c = "r" -> 114 [] c = "s" -> 115
      [] c = "t" -> 116

LowerChar(c) ==
    CASE c = "A" -> "a" [] c = "B" -> "b" [] c = "P" -> "p" [] c = "S" -> "s"
      [] OTHER -> c

\* str.lower()
lower(s) == [i \in 1..Len(s) |-> LowerChar(s[i])]

IsSpace(c) == c = " "

\* str.strip(): leading and trailing whitespace removed
RECURSIVE lstrip(_)
lstrip(s) == IF s # <<>> /\ IsSpace(Head(s)) THEN lstrip(Tail(s)) ELSE s

RECURSIVE rstrip(_)
rstrip(s) ==
    IF s # <<>> /\ IsSpace(s[Len(s)]) THEN rstrip(SubSeq(s, 1, Len(s) - 1)) ELSE s

strip(s) == rstrip(lstrip(s))

\* str.split(','): the pieces between the commas; "" gives [""]
RECURSIVE split(_)
split(s) ==
    IF \A i \in 1..Len(s) : s[i] # ","
    THEN <<s>>
    ELSE LET i == CHOOSE k \in 1..Len(s) :
                      s[k] = "," /\ \A j \in 1..(k - 1) : s[j] # ","
         IN  <<SubSeq(s, 1, i - 1)>> \o split(SubSeq(s, i + 1, Len(s)))

\* x < y on str: lexicographic by code point
RECURSIVE StrLess(_, _)
StrLess(x, y) ==
    IF y = <<>> THEN FALSE
    ELSE IF x = <<>> THEN TRUE
    ELSE IF Head(x) # Head(y) THEN Ord(Head(x)) < Ord(Head(y))
    ELSE StrLess(Tail(x), Tail(y))

\* The outcome of a call: a returned value, or an exception that leaves it
Ok(v)   == [kind |-> "ok", value |-> v]
Raised  == [kind |-> "raised", value |-> <<>>]
Pending == [kind |-> "pending", value |-> <<>>]

----------------------------------------------------------------------------
(* parser_csv *)

\* dict.get(key, default) on a row of csv.DictReader: the row has a key for
\* every column of the header; the value of a column the row is too short
\* for is None
DictGet(ligne, key, default) ==
    IF key \in DOMAIN ligne THEN ligne[key] ELSE default

SansTitre        == <<"S", "a", "n", "s", " ", "t", "i", "t", "r", "e">>
PasDeDescription ==
    <<"P", "a", "s", " ", "d", "e", " ", "d", "e", "s", "c", "r", "i", "p",
      "t", "i", "o", "n">>
DefaultUrl       == <<"#">>

ArticleOf(ligne) ==
    [titre       |-> DictGet(ligne, "Titre", SansTitre),
     description |-> DictGet(ligne, "Description", PasDeDescription),
     tags        |-> DictGet(ligne, "Tags", <<>>),
     url         |-> DictGet(ligne, "URL", DefaultUrl)]

parser_csv(reader) == [i \in 1..Len(reader) |-> ArticleOf(reader[i])]

----------------------------------------------------------------------------
(* extraire_tags_uniques *)

\* the tags one article adds to tags_set: stripped, non-empty pieces
ArticleTags(art) ==
    LET pieces == split(art.tags)
    IN  {strip(pieces[i]) : i \in 1..Len(pieces)} \ {<<>>}

tags_set(articles) == UNION {ArticleTags(articles[i]) : i \in 1..Len(articles)}

\* the sort key of sorted(tags_set, key=str.lower)
SortKeyIdentity(tag) == tag

SortKey(tag) == lower(tag)

\* list.sort is stable: an element goes after those whose key is not greater
RECURSIVE insert_sorted(_, _)
insert_sorted(sorted, tag) ==
    IF sorted = <<>> THEN <<tag>>
    ELSE IF StrLess(SortKey(tag), SortKey(Head(sorted)))
         THEN <<tag>> \o sorted
         ELSE <<Head(sorted)>> \o insert_sorted(Tail(sorted), tag)

RECURSIVE sorted_by_key(_)
sorted_by_key(list) ==
    IF list = <<>> THEN <<>>
    ELSE insert_sorted(sorted_by_key(SubSeq(list, 1, Len(list) - 1)), list[Len(list)])

\* the orders a set of str may be iterated in (string hashing decides)
IterationOrders(S) ==
    {f \in [1..Cardinality(S) -> S] :
        \A i, j \in 1..Cardinality(S) : i # j => f[i] # f[j]}

\* what extraire_tags_uniques may do: raise when a tags field is not a str
\* (art['tags'].split is an AttributeError on None), else return the sorted
\* list, for each order the set can be iterated in
extraire_tags_uniques(articles) ==
    IF \E i \in 1..Len(articles) : ~IsStr(articles[i].tags)
    THEN {Raised}
    ELSE {Ok(sorted_by_key(o)) : o \in IterationOrders(tags_set(articles))}

----------------------------------------------------------------------------
(* The tag extractor applied to a catalog typed in character by character *)

TagChars == {"a", "A", "B", " ", ","}

TotalChars(articles) ==
    LET RECURSIVE sum(_)
        sum(i) == IF i = 0 THEN 0 ELSE Len(articles[i].tags) + sum(i - 1)
    IN  sum(Len(articles))

\* lines 94-98: the cache as the module creates it
Cache0 == [articles |-> <<>>, tags |-> <<>>, last_refresh |-> 0]

\* calls counts the calls of get_donnees modulo 2: it changes with each call
NoGet ==
    [calls |-> 0, t |-> 0, kind |-> "none", reloads |-> 0,
     loaded |-> <<>>, ret_articles |-> <<>>, ret_tags |-> <<>>]

NoReply == [kind |-> "none", text |-> <<>>]

NoReq ==
    [method |-> "none", question |-> None, status |-> "none", gets |-> 0,
     completions |-> 0, articles |-> <<>>, tags |-> <<>>, reply |-> NoReply,
     resultat |-> Pending]

Thread0 ==
    [pc |-> "start", t |-> 0, articles |-> <<>>, ret_articles |-> <<>>,
     ret_tags |-> <<>>]

Threads == {1, 2}

ServerIdle  == now = StartNow /\ _cache = Cache0 /\ g = NoGet /\ req = NoReq
ThreadsIdle == th = [i \in Threads |-> Thread0]

TagIdle    == catalog = <<>> /\ tags_out = Pending
RenderIdle == r_rows = <<>> /\ r_titres = <<>> /\ r_articles = <<>> /\ r_html = Pending
LoadIdle   ==
    /\ env = [sheet_url |-> None, remote |-> [kind |-> "neterr", rows |-> <<>>], local |-> <<>>]
    /\ loaded = Pending

\* a new row, its Tags cell empty so far
NewRow ==
    /\ tags_out = Pending
    /\ Len(catalog) < MaxArticles
    /\ catalog' = catalog \o parser_csv(<<[Titre |-> <<"a">>, Tags |-> <<>>]>>)
    /\ UNCHANGED <<tags_out, renderVars, loadVars, serverVars, th>>

\* one more character of the last row's Tags cell
TypeChar ==
    /\ tags_out = Pending
    /\ catalog # <<>>
    /\ TotalChars(catalog) < MaxChars
    /\ \E c \in TagChars :
          catalog' = [catalog EXCEPT ![Len(catalog)].tags = Append(@, c)]
    /\ UNCHANGED <<tags_out, renderVars, loadVars, serverVars, th>>

Extract ==
    /\ tags_out = Pending
    /\ \E t \in extraire_tags_uniques(catalog) : tags_out' = t
    /\ UNCHANGED <<catalog, renderVars, loadVars, serverVars, th>>

InitTags == TagIdle /\ RenderIdle /\ LoadIdle /\ ServerIdle /\ ThreadsIdle
NextTags == NewRow \/ TypeChar \/ Extract
SpecTags == InitTags /\ [][NextTags]_vars

\* The tokens of the tags fields, read off the text: a stretch between two
\* commas (or an end of the field), without its outer blanks, if any is left
TokensOf(s) ==
    {SubSeq(s, c, d) : <<c, d>> \in
        {p \in (1..Len(s)) \X (1..Len(s)) :
            /\ p[1] <= p[2]
            /\ s[p[1]] # " " /\ s[p[2]] # " "
            /\ \A k \in p[1]..p[2] : s[k] # ","
            /\ \E a \in 1..p[1] :
                  /\ a = 1 \/ s[a - 1] = ","
                  /\ \A k \in a..(p[1] - 1) : s[k] = " "
            /\ \E b \in p[2]..Len(s) :
                  /\ b = Len(s) \/ s[b + 1] = ","
                  /\ \A k \in (p[2] + 1)..b : s[k] = " "}}

RefTags(articles) == UNION {TokensOf(articles[i].tags) : i \in 1..Len(articles)}

\* C9: extraire_tags_uniques returns a list without duplicates, sorted by
\* lower-cased entry, holding exactly the non-empty trimmed comma-separated
\* tokens of the tags fields; the empty catalog gives the empty list
C9_TagsUniqueSortedExact ==
    tags_out # Pending =>
        /\ tags_out.kind = "ok"
        /\ LET t == tags_out.value
           IN  /\ \A i, j \in 1..Len(t) : i # j => t[i] # t[j]
               /\ \A i \in 1..(Len(t) - 1) : ~StrLess(lower(t[i + 1]), lower(t[i]))
               /\ {t[i] : i \in 1..Len(t)} = RefTags(catalog)
               /\ (catalog = <<>> => t = <<>>)

\* two rows, "B," and " a": an empty piece dropped, a blank trimmed, and
\* "a" put before "B"
C9_Witness ==
    /\ Len(catalog) = 2
    /\ catalog[1].tags = <<"B", ",">>
    /\ catalog[2].tags = <<" ", "a">>
    /\ tags_out = Ok(<< <<"a">>, <<"B">> >>)

----------------------------------------------------------------------------
(* construire_html_resultats *)

NoResults   == [kind |-> "no_results", value |-> <<>>]
Html(cards) == [kind |-> "html", value |-> cards]

\* no <a class="btn-read"> in the card
NoBtn == <<>>

\* has_url and btn, url being article['url'].strip()
BtnRawUrl(article) ==
    IF article.url # <<>> /\ article.url # <<"#">> THEN article.url ELSE NoBtn

Btn(article) ==
    LET url     == strip(article.url)
        has_url == url # <<>> /\ url # <<"#">>
    IN  IF has_url THEN url ELSE NoBtn

\* the <div class="article-card"> of an article
Card(article) ==
    [titre       |-> article.titre,
     tags        |-> article.tags,
     description |-> article.description,
     btn         |-> Btn(article)]

\* a['titre'].strip().lower() == titre.strip().lower()
SameTitre(a, titre) == lower(strip(a.titre)) = lower(strip(titre))

\* next((a for a in articles if ...), None) from article i on: the index of
\* the article found, 0 for None, -1 when the test raises AttributeError
\* (a['titre'] or titre is not a str), which it does only if it is reached
RECURSIVE next_match_last(_, _, _)
next_match_last(titre, articles, i) ==
    IF i > Len(articles) THEN 0
    ELSE IF ~IsStr(articles[i].titre) \/ ~IsStr(titre) THEN -1
    ELSE LET later == next_match_last(titre, articles, i + 1)
         IN  IF later # 0 THEN later
             ELSE IF SameTitre(articles[i], titre) THEN i ELSE 0

RECURSIVE next_match(_, _, _)
next_match(titre, articles, i) ==
    IF i > Len(articles) THEN 0
    ELSE IF ~IsStr(articles[i].titre) \/ ~IsStr(titre) THEN -1
    ELSE IF SameTitre(articles[i], titre) THEN i
    ELSE next_match(titre, articles, i + 1)

\* the loop over titres_trouves from title k on, html being the cards so far
RECURSIVE html_loop(_, _, _, _)
html_loop(titres_trouves, articles, k, html) ==
    IF k > Len(titres_trouves)
    THEN IF html # <<>> THEN Html(html) ELSE NoResults
    ELSE LET m == next_match(titres_trouves[k], articles, 1)
         IN  IF m = -1 THEN Raised
             ELSE IF m = 0 THEN html_loop(titres_trouves, articles, k + 1, html)
             ELSE IF ~IsStr(articles[m].url) THEN Raised
             ELSE html_loop(titres_trouves, articles, k + 1,
                            Append(html, Card(articles[m])))

construire_html_resultats(titres_trouves, articles) ==
    html_loop(titres_trouves, articles, 1, <<>>)

----------------------------------------------------------------------------
(* The renderer applied to rows and titles given one by one *)

RowTitres == {<<"a">>, <<"A", " ">>, <<"B">>, None}
RowUrls   == {<<" ", "#">>, <<"h">>, <<" ">>, None}

\* rows of csv.DictReader: with a URL column, or from a sheet without one
RenderRows ==
    {[Titre |-> t, Tags |-> <<"a">>, URL |-> u] : t \in RowTitres, u \in RowUrls}
    \cup {[Titre |-> t, Tags |-> <<"a">>] : t \in RowTitres}

\* elements of the JSON list: strings, and a number
RenderTitres == {<<" ", "a">>, <<"b">>, JNumber}

AddRow ==
    /\ r_html = Pending
    /\ Len(r_rows) < MaxArticles
    /\ \E ligne \in RenderRows : r_rows' = Append(r_rows, ligne)
    /\ UNCHANGED <<r_titres, r_articles, r_html, tagVars, loadVars, serverVars, th>>

AddTitre ==
    /\ r_html = Pending
    /\ Len(r_titres) < MaxTitres
    /\ \E t \in RenderTitres : r_titres' = Append(r_titres, t)
    /\ UNCHANGED <<r_rows, r_articles, r_html, tagVars, loadVars, serverVars, th>>

Render ==
    /\ r_html = Pending
    /\ r_articles' = parser_csv(r_rows)
    /\ r_html' = construire_html_resultats(r_titres, r_articles')
    /\ UNCHANGED <<r_rows, r_titres, tagVars, loadVars, serverVars, th>>

InitRender == TagIdle /\ RenderIdle /\ LoadIdle /\ ServerIdle /\ ThreadsIdle
NextRender == AddRow \/ AddTitre \/ Render
SpecRender == InitRender /\ [][NextRender]_vars

\* titles and articles as the data model has them: every field a string
Typed ==
    /\ \A k \in 1..Len(r_titres) : IsStr(r_titres[k])
    /\ \A i \in 1..Len(r_articles) :
          IsStr(r_articles[i].titre) /\ IsStr(r_articles[i].url)

\* the first article, in catalog order, whose title is the returned title up
\* to case and outer blanks; 0 when there is none
RefFirst(titre, articles) ==
    LET hits == {i \in 1..Len(articles) : lower(strip(articles[i].titre)) = lower(strip(titre))}
    IN  IF hits = {} THEN 0 ELSE CHOOSE i \in hits : \A j \in hits : i <= j

\* the articles the titles stand for, in the order of the titles
RECURSIVE RefHits(_, _)
RefHits(titres, articles) ==
    IF titres = <<>> THEN <<>>
    ELSE LET i == RefFirst(Head(titres), articles)
         IN  (IF i = 0 THEN <<>> ELSE <<i>>) \o RefHits(Tail(titres), articles)

\* C7: on strings, construire_html_resultats gives, title by title, the card
\* of the first article matching up to case and outer blanks, nothing for a
\* title without a match, and the no-results fragment exactly when the list
\* is empty or no title matches any article
C7_RenderIsFirstMatch ==
    (r_html # Pending /\ Typed) =>
        LET hits == RefHits(r_titres, r_articles)
        IN  /\ r_html = IF hits = <<>> THEN NoResults
                        ELSE Html([j \in 1..Len(hits) |-> Card(r_articles[hits[j]])])
            /\ (r_html = NoResults) <=>
                  \/ r_titres = <<>>
                  \/ \A k \in 1..Len(r_titres) : \A i \in 1..Len(r_articles) :
                        lower(strip(r_articles[i].titre)) # lower(strip(r_titres[k]))

\* two different articles carry the title asked for, a second title matches
\* nothing: one card, the first article's
C7_Witness ==
    /\ r_html # Pending /\ Typed
    /\ Len(r_articles) = 2 /\ Len(r_titres) = 2
    /\ r_articles[1].titre = <<"A", " ">> /\ r_articles[2].titre = <<"a">>
    /\ r_articles[1].url # r_articles[2].url
    /\ r_titres = << <<"b">>, <<" ", "a">> >>
    /\ r_html = Html(<<Card(r_articles[1])>>)

\* the URL is there once its blanks are trimmed, and is not "#"
UrlGiven(url) ==
    LET inked == {i \in 1..Len(url) : url[i] # " "}
    IN  /\ inked # {}
        /\ ~(Cardinality(inked) = 1 /\ \A i \in inked : url[i] = "#")

\* C8: a card has the read-more link iff its article's URL, trimmed, is
\* neither empty nor "#"; an article from a row without URL column has the
\* URL "#" and its card no link
C8_LinkIffUrlGiven ==
    (r_html.kind = "html" /\ Typed) =>
        LET hits == RefHits(r_titres, r_articles)
        IN  /\ Len(r_html.value) = Len(hits)
            /\ \A j \in 1..Len(hits) :
                  /\ (r_html.value[j].btn # NoBtn) <=> UrlGiven(r_articles[hits[j]].url)
                  /\ "URL" \notin DOMAIN r_rows[hits[j]] =>
                        /\ r_articles[hits[j]].url = <<"#">>
                        /\ r_html.value[j].btn = NoBtn

\* a card with a link, then the card of an article from a row without URL
C8_Witness ==
    /\ r_html.kind = "html" /\ Typed
    /\ Len(r_html.value) = 2
    /\ r_html.value[1].btn = <<"h">>
    /\ "URL" \notin DOMAIN r_rows[RefFirst(r_titres[2], r_articles)]
    /\ r_html.value[2].btn = NoBtn

----------------------------------------------------------------------------
(* charger_articles *)

\* The rows csv.DictReader yields for some sheets and files: no row; a full
\* row; two rows of a sheet without URL column; a row too short for the
\* Tags and URL columns, whose values are None
CsvNoRows == <<>>
CsvFull ==
    <<[Titre |-> <<"a">>, Description |-> <<"d">>,
       Tags |-> <<"a", ",", " ", "B">>, URL |-> <<"h">>]>>
CsvNoUrlColumn ==
    <<[Titre |-> <<"A", " ">>, Description |-> <<"d">>, Tags |-> <<"B", ",", "a">>],
      [Titre |-> <<"B">>, Description |-> <<"e">>, Tags |-> <<"A">>]>>
CsvShortRow ==
    <<[Titre |-> <<"a">>, Description |-> <<"d">>, Tags |-> None, URL |-> None]>>

CsvSamples == {CsvNoRows, CsvFull, CsvNoUrlColumn, CsvShortRow}

\* what the GET of the sheet does, and what opening a local file does
RemoteOutcomes ==
    {[kind |-> "rows", rows |-> r] : r \in CsvSamples}
    \cup {[kind |-> "non2xx", rows |-> <<>>], [kind |-> "neterr", rows |-> <<>>]}
LocalFiles ==
    {[kind |-> "readable", rows |-> r] : r \in CsvSamples}
    \cup {[kind |-> "unreadable", rows |-> <<>>]}

\* sheet_url: GOOGLE_SHEET_CSV_URL or None; local: glob's list of .csv files
Envs ==
    [sheet_url : {None, <<"h">>},
     remote    : RemoteOutcomes,
     local     : UNION {[1..n -> LocalFiles] : n \in 0..MaxFiles}]

\* a try block that ends without returning
NoReturn == [kind |-> "none", value |-> <<>>]

\* lines 44-51: requests.get raises on a network failure, raise_for_status
\* on a status that is not 2xx; the rows are returned if there are any
RemoteTry(e) ==
    IF e.remote.kind \in {"neterr", "non2xx"} THEN Raised
    ELSE LET articles == parser_csv(e.remote.rows)
         IN  IF articles # <<>> THEN Ok(articles) ELSE NoReturn

\* line 52: except Exception, then on to the local files
RemoteExcept(outcome) == IF outcome = Raised THEN NoReturn ELSE outcome

\* lines 61-65: open(fichiers[0]) raises on a file that cannot be read
LocalTry(e) ==
    IF e.local[1].kind = "unreadable" THEN Raised
    ELSE Ok(parser_csv(e.local[1].rows))

\* lines 66-67: except Exception: return []
LocalExceptPropagates(outcome) == outcome

LocalExcept(outcome) == IF outcome = Raised THEN Ok(<<>>) ELSE outcome

charger_articles(e) ==
    LET remote == IF e.sheet_url # None THEN RemoteExcept(RemoteTry(e)) ELSE NoReturn
    IN  IF remote # NoReturn THEN remote
        ELSE IF e.local = <<>> THEN Ok(<<>>)
        ELSE LocalExcept(LocalTry(e))

\* The loader applied to every environment
Load ==
    /\ loaded = Pending
    /\ loaded' = charger_articles(env)
    /\ UNCHANGED <<env, tagVars, renderVars, serverVars, th>>

InitLoad ==
    /\ TagIdle /\ RenderIdle /\ ServerIdle /\ ThreadsIdle
    /\ env \in Envs /\ loaded = Pending
NextLoad == Load
SpecLoad == InitLoad /\ [][NextLoad]_vars

\* C4: charger_articles never raises; it returns the remote rows when a URL
\* is configured and the fetch gave at least one row, otherwise the rows of
\* the first local .csv file if that can be read, otherwise the empty list
C4_LoaderOrderNeverRaises ==
    loaded # Pending =>
        /\ loaded.kind = "ok"
        /\ loaded.value =
              IF /\ env.sheet_url # None
                 /\ env.remote.kind = "rows"
                 /\ Len(env.remote.rows) >= 1
              THEN parser_csv(env.remote.rows)
              ELSE IF Len(env.local) >= 1 /\ env.local[1].kind = "readable"
                   THEN parser_csv(env.local[1].rows)
                   ELSE <<>>

\* the sheet answers with a status that is not 2xx, the first local file
\* cannot be read, a second one could: the empty list
C4_Witness ==
    /\ env.sheet_url # None /\ env.remote.kind = "non2xx"
    /\ Len(env.local) = 2
    /\ env.local[1].kind = "unreadable" /\ env.local[2].kind = "readable"
    /\ env.local[2].rows # <<>>
    /\ loaded = Ok(<<>>)

----------------------------------------------------------------------------
(* get_donnees *)

CACHE_TTL == 300

\* line 103: now - _cache["last_refresh"] > CACHE_TTL or not _cache["articles"]
NeedsReloadAtTTL(c, t) == t - c.last_refresh >= CACHE_TTL \/ c.articles = <<>>

NeedsReloadByAgeOnly(c, t) == t - c.last_refresh > CACHE_TTL

NeedsReload(c, t) == t - c.last_refresh > CACHE_TTL \/ c.articles = <<>>

GetOutcome(kind, c, reloads, l) ==
    [kind |-> kind, cache |-> c, reloads |-> reloads, loaded |-> l,
     ret_articles |-> IF kind = "ok" THEN c.articles ELSE <<>>,
     ret_tags     |-> IF kind = "ok" THEN c.tags ELSE <<>>]

\* what charger_articles may return or raise, over all environments
LoadOutcomes == {charger_articles(e) : e \in Envs}

\* What one call of get_donnees at time t may do to cache c, l being the
\* outcome of charger_articles if it is called: the cache it leaves, whether
\* it returns or an exception leaves it, the pair it returns, and the calls
\* of charger_articles it made.  An exception of extraire_tags_uniques
\* leaves after line 105 has stored the articles and before lines 106-107
\* store the tags and the time.
get_donnees(c, t, l) ==
    IF NeedsReload(c, t)
    THEN     IF l.kind # "ok" THEN {GetOutcome("raised", c, 1, <<>>)}
             ELSE {IF x.kind # "ok"
                   THEN GetOutcome("raised", [c EXCEPT !.articles = l.value], 1, l.value)
                   ELSE GetOutcome("ok",
                            [articles |-> l.value, tags |-> x.value, last_refresh |-> t],
                            1, l.value)
                   : x \in extraire_tags_uniques(l.value)}
    ELSE {GetOutcome("ok", c, 0, <<>>)}

----------------------------------------------------------------------------
(* home: the text of the model, fence stripping, json.loads *)

\* JSON documents: text that is no JSON, values that are no list, and lists
JsonDoc(json, items) == [json |-> json, items |-> items]
NoDoc == JsonDoc("none", <<>>)

\* the text of a response as pieces: ```json, ```, whitespace, a document
FenceJson == [tok |-> "fence_json", doc |-> NoDoc]
Fence     == [tok |-> "fence", doc |-> NoDoc]
WS        == [tok |-> "ws", doc |-> NoDoc]
Doc(d)    == [tok |-> "doc", doc |-> d]

\* str.strip() on the text
RECURSIVE strip_text(_)
strip_text(raw) ==
    IF raw # <<>> /\ Head(raw) = WS THEN strip_text(Tail(raw))
    ELSE IF raw # <<>> /\ raw[Len(raw)] = WS THEN strip_text(SubSeq(raw, 1, Len(raw) - 1))
    ELSE raw

\* re.sub(fence + r'\s*', '', raw): every such fence goes, with the
\* whitespace after it
RECURSIVE re_sub(_, _, _)
re_sub(fence, raw, after_fence) ==
    IF raw = <<>> THEN <<>>
    ELSE IF Head(raw) = fence THEN re_sub(fence, Tail(raw), TRUE)
    ELSE IF Head(raw) = WS /\ after_fence THEN re_sub(fence, Tail(raw), TRUE)
    ELSE <<Head(raw)>> \o re_sub(fence, Tail(raw), FALSE)

\* lines 166-169
fence_strip(text) ==
    strip_text(re_sub(Fence, re_sub(FenceJson, strip_text(text), FALSE), FALSE))

\* json.loads: JSONDecodeError unless the text is one JSON document
json_loads(raw) ==
    IF Len(raw) = 1 /\ raw[1].tok = "doc" /\ raw[1].doc.json # "invalid"
    THEN Ok(raw[1].doc)
    ELSE Raised

Erreur == [kind |-> "erreur", value |-> <<>>]

\* lines 156-179, from the answer of generate_content on: the resultat
Resultat(reply, articles) ==
    IF reply.kind = "api_error" THEN Erreur
    ELSE IF reply.kind = "none_text" THEN Erreur
    ELSE LET parsed == json_loads(fence_strip(reply.text))
         IN  IF parsed = Raised THEN NoResults
             ELSE IF parsed.value.json = "array" /\ Len(parsed.value.items) > 0
                  THEN LET html == construire_html_resultats(parsed.value.items, articles)
                       IN  IF html = Raised THEN Erreur ELSE html
                  ELSE NoResults

\* the elements a JSON list is made of here: a title of the catalogs, a title
\* of none, a number
ListItems == {<<"A">>, <<"h">>, JNumber}

JsonDocs ==
    {JsonDoc(j, <<>>) : j \in {"invalid", "object", "number", "string", "null"}}
    \cup {JsonDoc("array", items) :
            items \in UNION {[1..n -> ListItems] : n \in 0..MaxTitres}}

RawTexts ==
    {pre \o <<Doc(d)>> \o post :
        pre \in {<<>>, <<FenceJson, WS>>}, d \in JsonDocs, post \in {<<>>, <<WS, Fence>>}}
    \cup {<<>>, <<Fence, WS, Fence>>}

\* what generate_content does: raises (transport, API, timeout), answers
\* without text (response.text is None), answers with text
Replies ==
    {[kind |-> "api_error", text |-> <<>>], [kind |-> "none_text", text |-> <<>>]}
    \cup {[kind |-> "text", text |-> raw] : raw \in RawTexts}

\* request.form.get('question'): missing, empty, or a text
Questions == {None, <<>>, <<"a">>}

\* if question:
Truthy(question) == question # None /\ question # <<>>

----------------------------------------------------------------------------
(* The server: one request at a time *)

TickSteps == {CACHE_TTL, CACHE_TTL + 1}

Tick ==
    /\ \E d \in TickSteps : now + d <= MaxNow /\ now' = now + d
    /\ UNCHANGED <<_cache, g, req, tagVars, renderVars, loadVars, th>>

\* generate_content calls of a request that got past get_donnees
Completions(method, question) ==
    IF method = "POST" /\ Truthy(question) THEN 1 ELSE 0

\* home() from line 149 up to the call of generate_content, or up to its end
\* when there is no question, or up to the exception of get_donnees, which
\* nothing catches.  Lines 157 and 181 (the prompt, the template) change no
\* state.
HomeBegin ==
    /\ req.status # "calling"
    /\ \E method \in {"GET", "POST"}, question \in Questions, l \in LoadOutcomes :
       \E out \in get_donnees(_cache, now, l) :
          /\ method = "GET" => question = None
          /\ _cache' = out.cache
          /\ g' = [calls |-> 1 - g.calls, t |-> now, kind |-> out.kind,
                   reloads |-> out.reloads, loaded |-> out.loaded,
                   ret_articles |-> out.ret_articles, ret_tags |-> out.ret_tags]
          /\ req' = [method |-> method, question |-> question,
                     status |-> IF out.kind # "ok" THEN "fault"
                                ELSE IF Completions(method, question) > 0 THEN "calling"
                                ELSE "page",
                     gets |-> 1,
                     completions |-> IF out.kind # "ok" THEN 0
                                     ELSE Completions(method, question),
                     articles |-> out.ret_articles, tags |-> out.ret_tags,
                     reply |-> NoReply,
                     resultat |-> Pending]
    /\ UNCHANGED <<now, tagVars, renderVars, loadVars, th>>

\* home() from the answer of generate_content to render_template
HomeEnd ==
    /\ req.status = "calling"
    /\ \E reply \in Replies :
          req' = [req EXCEPT !.status = "page", !.reply = reply,
                             !.resultat = Resultat(reply, req.articles)]
    /\ UNCHANGED <<now, _cache, g, tagVars, renderVars, loadVars, th>>

Init == TagIdle /\ RenderIdle /\ LoadIdle /\ ServerIdle /\ ThreadsIdle
Next == Tick \/ HomeBegin \/ HomeEnd
Spec == Init /\ [][Next]_vars

\* the cache is STALE: empty, or older than the TTL
Stale(c, t) == c.articles = <<>> \/ t - c.last_refresh > CACHE_TTL

\* this step is a call of get_donnees
GetCalled == g'.calls # g.calls

\* the call returned the pair (a, t)
Returned(a, t) == g'.kind = "ok" /\ g'.ret_articles = a /\ g'.ret_tags = t

\* C1 as stated: a call more than TTL after the last refresh reloads once; a
\* call within TTL of the last refresh does not reload and returns the
\* cached pair unchanged
C1_Original ==
    [][GetCalled =>
          /\ now - _cache.last_refresh > CACHE_TTL => g'.reloads = 1
          /\ (_cache.last_refresh # 0 /\ now - _cache.last_refresh <= CACHE_TTL) =>
                /\ g'.reloads = 0
                /\ _cache' = _cache
                /\ Returned(_cache.articles, _cache.tags)]_vars

\* C1 amended: a call more than TTL after the last refresh, or with an empty
\* cached catalog, calls the loader exactly once; a call within TTL of the
\* last refresh with a non-empty cached catalog calls it not at all and
\* returns the cached pair, leaving the cache as it was
C1_ReloadOnceOrServeCached ==
    [][GetCalled =>
          /\ now - _cache.last_refresh > CACHE_TTL => g'.reloads = 1
          /\ _cache.articles = <<>> => g'.reloads = 1
          /\ (now - _cache.last_refresh <= CACHE_TTL /\ _cache.articles # <<>>) =>
                /\ g'.reloads = 0
                /\ _cache' = _cache
                /\ Returned(_cache.articles, _cache.tags)]_vars

\* a call exactly TTL after the refresh was served from the cache
C1_Witness ==
    /\ g.kind = "ok" /\ g.reloads = 0
    /\ _cache.last_refresh # 0 /\ g.t - _cache.last_refresh = CACHE_TTL
    /\ g.ret_articles = _cache.articles /\ _cache.articles # <<>>

\* C2: the cache starts empty, so STALE; a call reloads iff the cache is
\* STALE (empty, or age > TTL: age = TTL is FRESH); a reloading call that
\* returns has stored the loader's catalog, its tag extraction and the time,
\* and returns them; a call on a FRESH cache changes nothing and returns the
\* held pair; a STALE cache turns FRESH only in a call whose reload gave a
\* non-empty catalog
C2_TwoStateCache ==
    /\ _cache = Cache0 /\ Stale(_cache, now)
    /\ [][GetCalled =>
             /\ g'.reloads = IF Stale(_cache, now) THEN 1 ELSE 0
             /\ (Stale(_cache, now) /\ g'.kind = "ok") =>
                   /\ _cache'.articles = g'.loaded
                   /\ Ok(_cache'.tags) \in extraire_tags_uniques(g'.loaded)
                   /\ _cache'.last_refresh = now
                   /\ Returned(_cache'.articles, _cache'.tags)
             /\ ~Stale(_cache, now) =>
                   /\ _cache' = _cache
                   /\ Returned(_cache.articles, _cache.tags)]_vars
    /\ [][(Stale(_cache, now) /\ ~Stale(_cache', now')) =>
             /\ GetCalled /\ g'.reloads = 1
             /\ g'.loaded # <<>> /\ _cache'.articles = g'.loaded]_vars

\* a call at age TTL was served from the cache, which is still FRESH
C2_Witness ==
    /\ g.kind = "ok" /\ g.reloads = 0
    /\ now - _cache.last_refresh = CACHE_TTL
    /\ g.t = now
    /\ ~Stale(_cache, now)
    /\ Len(_cache.tags) = 3

\* the JSON documents in a text, its fences and whitespace set aside
Payload(text) == SelectSeq(text, LAMBDA k : k.tok = "doc")

\* the text is not one JSON list of strings
Malformed(text) ==
    \/ Len(Payload(text)) # 1
    \/ LET d == Payload(text)[1].doc
       IN  \/ d.json # "array"
           \/ \E i \in 1..Len(d.items) : ~IsStr(d.items[i])

\* C5: a response that is not a JSON list of strings gives the no-results
\* fragment, not an error message
C5_MalformedGivesNoResults ==
    (req.status = "page" /\ req.reply.kind = "text" /\ Malformed(req.reply.text))
        => req.resultat = NoResults

\* C6: every request ends in the page; a failed completion call shows as an
\* error message in it
C6_EveryRequestRenders ==
    /\ req.status # "fault"
    /\ (req.status = "page" /\ req.reply.kind = "api_error") => req.resultat = Erreur

\* C10: every request calls get_donnees once; a POST with a question calls
\* generate_content once, any other request never
C10_OneCompletionPerQuery ==
    req.status \in {"calling", "page", "fault"} =>
        /\ req.gets = 1
        /\ req.completions =
              IF req.method = "POST" /\ req.question # None /\ req.question # <<>>
              THEN 1 ELSE 0

----------------------------------------------------------------------------
(* Two request threads in get_donnees, a step per cache access *)

At(i, pc) == th[i].pc = pc

Goto(i, pc) == th' = [th EXCEPT ![i].pc = pc]

\* lines 102-103: the time is read and the cache examined
T_check(i) ==
    /\ At(i, "start")
    /\ th' = [th EXCEPT ![i].t = now,
                        ![i].pc = IF NeedsReload(_cache, now) THEN "load" ELSE "return"]
    /\ UNCHANGED <<now, _cache, g, req, tagVars, renderVars, loadVars>>

\* line 104: articles = charger_articles()
T_load(i) ==
    /\ At(i, "load")
    /\ \E l \in LoadOutcomes :
          th' = [th EXCEPT ![i].articles = l.value,
                           ![i].pc = IF l.kind = "ok" THEN "set_articles" ELSE "raised"]
    /\ UNCHANGED <<now, _cache, g, req, tagVars, renderVars, loadVars>>

\* line 105: _cache["articles"] = articles
T_set_articles(i) ==
    /\ At(i, "set_articles")
    /\ _cache' = [_cache EXCEPT !.articles = th[i].articles]
    /\ Goto(i, "set_tags")
    /\ UNCHANGED <<now, g, req, tagVars, renderVars, loadVars>>

\* line 106: _cache["tags"] = extraire_tags_uniques(articles)
T_set_tags(i) ==
    /\ At(i, "set_tags")
    /\ \E x \in extraire_tags_uniques(th[i].articles) :
          IF x.kind = "ok"
          THEN _cache' = [_cache EXCEPT !.tags = x.value] /\ Goto(i, "set_refresh")
          ELSE UNCHANGED _cache /\ Goto(i, "raised")
    /\ UNCHANGED <<now, g, req, tagVars, renderVars, loadVars>>

\* line 107: _cache["last_refresh"] = now
T_set_refresh(i) ==
    /\ At(i, "set_refresh")
    /\ _cache' = [_cache EXCEPT !.last_refresh = th[i].t]
    /\ Goto(i, "return")
    /\ UNCHANGED <<now, g, req, tagVars, renderVars, loadVars>>

\* line 108: return _cache["articles"], _cache["tags"]
T_return(i) ==
    /\ At(i, "return")
    /\ th' = [th EXCEPT ![i].ret_articles = _cache.articles,
                        ![i].ret_tags = _cache.tags,
                        ![i].pc = "done"]
    /\ UNCHANGED <<now, _cache, g, req, tagVars, renderVars, loadVars>>

InitConc == TagIdle /\ RenderIdle /\ LoadIdle /\ ServerIdle /\ ThreadsIdle
NextConc ==
    \E i \in Threads :
        \/ T_check(i)
        \/ T_load(i)
        \/ T_set_articles(i)
        \/ T_set_tags(i)
        \/ T_set_refresh(i)
        \/ T_return(i)
SpecConc == InitConc /\ [][NextConc]_vars

\* the tags are a tag extraction of the articles
FromOneLoad(articles, tags) == Ok(tags) \in extraire_tags_uniques(articles)

\* C3: once both calls have returned, the cached tags are the extraction of
\* the cached articles, and so is each returned pair
C3_NoCorruption ==
    (\A i \in Threads : At(i, "done")) =>
        /\ FromOneLoad(_cache.articles, _cache.tags)
        /\ \A i \in Threads : FromOneLoad(th[i].ret_articles, th[i].ret_tags)

====
